---- MODULE Spec2Model ----
(***************************************************************************)
(* A model of streamlit_app.py: the sea-level / seafood dashboard.         *)
(*                                                                         *)
(* The program is a Streamlit script.  Every rerun executes the script     *)
(* from top to bottom: it obtains the memoized result of synthesize_data   *)
(* (computing it on a cache miss from numpy's process-wide random          *)
(* generator and the calendar year), reads the sidebar widgets, filters    *)
(* each data set by the selected year range and derives the tab 1 metrics  *)
(* and trend line.                                                         *)
(*                                                                         *)
(* Floating point numbers are represented in fixed point, as integers      *)
(* counting thousandths (Milli).  numpy's generator is represented by a    *)
(* small linear congruential generator whose state is seeded               *)
(* nondeterministically when the process starts (the script never seeds    *)
(* it); every draw advances the state, as in numpy.                        *)
(***************************************************************************)
EXTENDS Integers, Sequences, FiniteSets

(***************************************************************************)
(* Bounds of the model.                                                    *)
(***************************************************************************)
\* The calendar year reaches FishStart + MaxSpan at most.
MaxSpan == 1
\* A slider handle is dragged to a year at most Edge years from either end
\* of the slider.
Edge == 0
\* The process starts with the random generator in one of the states
\* 0..MaxSeed.
MaxSeed == 0
\* At most MaxChanged widgets are away from their defaults at a time.
MaxChanged == 1

(***************************************************************************)
(* Program constants.                                                      *)
(***************************************************************************)
SeaStart == 1990
FishStart == 2010
SeaRise == 107

\* The calendar year runs from FishStart - 1 to LastYear.
LastYear == FishStart + MaxSpan
Years == (FishStart - 1)..LastYear

\* Species of fish_distribution_change, in concat order:
\* "명태" (pollock), "방어" (yellowtail).
DistSpecies == << [name |-> "myeongtae", start |-> 100, end |-> 10],
                  [name |-> "bangeo", start |-> 30, end |-> 90] >>

\* The dict `trends`, in insertion order: "멸치", "오징어", "고등어", "꽃게", "낙지".
trends == << [name |-> "myeolchi", start |-> 220, end |-> 150],
             [name |-> "ojingeo", start |-> 150, end |-> 40],
             [name |-> "godeungeo", start |-> 180, end |-> 110],
             [name |-> "kkotge", start |-> 30, end |-> 15],
             [name |-> "nakji", start |-> 50, end |-> 25] >>

SeafoodNames == {trends[i].name : i \in 1..Len(trends)}
DefaultSeafood == {"myeolchi", "ojingeo", "godeungeo"}

(***************************************************************************)
(* Numbers.                                                                *)
(***************************************************************************)
\* A float with the integer value x, in thousandths.
Milli(x) == 1000 * x

RECURSIVE SumTo(_, _)
SumTo(s, k) == IF k = 0 THEN 0 ELSE s[k] + SumTo(s, k - 1)

SumSeq(s) == SumTo(s, Len(s))

\* ndarray.cumsum()
cumsum(s) == [i \in 1..Len(s) |-> SumTo(s, i)]

\* np.arange(start, stop): the integers start, ..., stop - 1.
arange(start, stop) ==
    IF stop <= start THEN << >> ELSE [i \in 1..(stop - start) |-> start + i - 1]

\* np.linspace(start, stop, num), endpoint included: num = 0 gives the empty
\* array, num = 1 gives [start].
linspace(start, stop, num) ==
    [i \in 1..num |->
        IF num = 1 THEN Milli(start)
        ELSE IF i = num THEN Milli(stop)
        ELSE Milli(start) + ((i - 1) * Milli(stop - start)) \div (num - 1)]

\* np.clip(x, 0, None)
clip(x) == IF x < 0 THEN 0 ELSE x

(***************************************************************************)
(* numpy's global random generator.                                        *)
(***************************************************************************)
\* The number of states of the generator.
RngMod == 12

RngStep(r) == (r + 5) % RngMod

\* The generator's state after k draws.
RECURSIVE RngAt(_, _)
RngAt(r, k) == IF k = 0 THEN r ELSE RngStep(RngAt(r, k - 1))

\* One sample of the standard normal distribution, in thousandths: one of
\* -2, -1, 0, 1, 2.
Normal(r) == Milli((r % 5) - 2)

\* One sample of the uniform distribution on [lo, hi), lo and hi in
\* thousandths.
Uniform(lo, hi, r) == lo + ((hi - lo) * (r \div 3)) \div 4

\* np.random.randn(n) with the generator in state r.
randn(r, n) == [i \in 1..n |-> Normal(RngAt(r, i))]

\* np.random.uniform(lo, hi, n) with the generator in state r.
uniform(r, lo, hi, n) == [i \in 1..n |-> Uniform(lo, hi, RngAt(r, i))]

\* a * m for a float a and a multiplier m, both in thousandths.
Times(a, m) == (a * m) \div 1000

(***************************************************************************)
(* Data frames: sequences of rows, in index order.                         *)
(***************************************************************************)
\* pd.concat of a sequence of frames.
RECURSIVE concat(_)
concat(frames) ==
    IF frames = << >> THEN << >> ELSE Head(frames) \o concat(Tail(frames))

\* The distinct years of a frame.
YearsOf(df) == {df[i].year : i \in 1..Len(df)}

\* The elements of a finite set of integers, ascending.
Ascending(S) ==
    [i \in 1..Cardinality(S) |->
        CHOOSE y \in S : Cardinality({z \in S : z < y}) = i - 1]

\* The rows of df for which column `species` is name.
OfSpecies(df, name) == SelectSeq(df, LAMBDA row : row.species = name)

\* The column `catch` of the rows of df with the given year.
CatchIn(df, year) ==
    LET rows == SelectSeq(df, LAMBDA row : row.year = year)
    IN  [i \in 1..Len(rows) |-> rows[i].catch]

\* df.groupby('year')[catch].sum().reset_index(): one row per distinct year,
\* the years ascending, the catch summed.
GroupSum(df) ==
    LET keys == Ascending(YearsOf(df))
    IN  [i \in 1..Len(keys) |->
            [year |-> keys[i], catch |-> SumSeq(CatchIn(df, keys[i]))]]

\* DistFrame with the jitter alone as the multiplier: ramp * (uniform - 1).
DistFrame_JitterOnly(sp, years, r) ==
    LET n == Len(years)
        ramp == linspace(sp.start, sp.end, n)
        mult == uniform(r, 800, 1200, n)
    IN  [i \in 1..n |->
            [year |-> years[i], species |-> sp.name,
             catch |-> Times(ramp[i], mult[i] - 1000)]]

\* One frame of fish_distribution_change: the species' ramp times a uniform
\* multiplier from [0.8, 1.2); not clipped.
DistFrame(sp, years, r) ==
    LET n == Len(years)
        ramp == linspace(sp.start, sp.end, n)
        mult == uniform(r, 800, 1200, n)
    IN  [i \in 1..n |->
            [year |-> years[i], species |-> sp.name,
             catch |-> Times(ramp[i], mult[i])]]

\* One frame of main_seafood_catch: the species' ramp times a uniform
\* multiplier from [0.85, 1.15), clipped at 0.
SeafoodFrame(sp, years, r) ==
    LET n == Len(years)
        ramp == linspace(sp.start, sp.end, n)
        mult == uniform(r, 850, 1150, n)
    IN  [i \in 1..n |->
            [year |-> years[i], species |-> sp.name,
             catch |-> clip(Times(ramp[i], mult[i]))]]

\* The price index of every row of total_catch:
\* initial_catch / catch * 100 + randn * 2.
PriceIndex(total, initial, noise) ==
    [i \in 1..Len(total) |->
        [year |-> total[i].year, catch |-> total[i].catch,
         price |-> ((initial * 1000) \div total[i].catch) * 100 + noise[i] * 2]]

NoData ==
    [korea_sea_level |-> << >>, fish_distribution_change |-> << >>,
     main_seafood_catch |-> << >>, main_seafood_economics |-> << >>,
     student_nutrition |-> << >>]

\* The frame korea_sea_level: the base rise plus half the random walk.
SeaLevelFrame(years, base, walk) ==
    [i \in 1..Len(years) |->
        [year |-> years[i], value |-> base[i] + walk[i] \div 2]]

\* The frame student_nutrition: three ramps, each times its multipliers.
NutritionFrame(years, ramps, intake, protein, omega3) ==
    [i \in 1..Len(years) |->
        [year |-> years[i],
         intake |-> Times(ramps[1][i], intake[i]),
         protein |-> Times(ramps[2][i], protein[i]),
         omega3 |-> Times(ramps[3][i], omega3[i])]]

\* Lines 98-111, with the sea-level and fisheries frames made and the random
\* generator in state r: total_catch.iloc[0] raises IndexError when
\* total_catch is empty.
Economics(sea, dist, seafood_data, total_catch, years, r) ==
    LET n == Len(years)
        nt == Len(total_catch)
        r4 == RngAt(r, nt)
    IN  IF nt = 0
        THEN [error |-> "IndexError", data |-> NoData, rng |-> r]
        ELSE [error |-> "none",
              data |-> [korea_sea_level |-> sea,
                        fish_distribution_change |-> dist,
                        main_seafood_catch |-> seafood_data,
                        main_seafood_economics |->
                            PriceIndex(total_catch, total_catch[1].catch,
                                       randn(r, nt)),
                        student_nutrition |->
                            NutritionFrame(years,
                                <<linspace(500, 350, n), linspace(18, 15, n),
                                  linspace(100, 75, n)>>,
                                uniform(r4, 950, 1050, n),
                                uniform(RngAt(r4, n), 980, 1020, n),
                                uniform(RngAt(r4, 2 * n), 950, 1050, n))],
              rng |-> RngAt(r4, 3 * n)]

\* Lines 98-111: total_catch is seafood_data grouped by year.
Totals(sea, dist, seafood_data, years, r) ==
    Economics(sea, dist, seafood_data, GroupSum(seafood_data), years, r)

\* Lines 84-111, with the sea-level frame made and the random generator in
\* state r.
Fisheries(sea, years, r) ==
    LET n == Len(years)
        r2 == RngAt(r, Len(DistSpecies) * n)
    IN  Totals(sea,
            concat([k \in 1..Len(DistSpecies) |->
                DistFrame(DistSpecies[k], years, RngAt(r, (k - 1) * n))]),
            concat([k \in 1..Len(trends) |->
                SeafoodFrame(trends[k], years, RngAt(r2, (k - 1) * n))]),
            years, RngAt(r2, Len(trends) * n))

\* FishYears without the current year.
FishYears_Exclusive(current_year) == arange(FishStart, current_year)

\* The years of the sea-level frame and of the other frames.
SeaYears(current_year) == arange(SeaStart, current_year + 1)
FishYears(current_year) == arange(FishStart, current_year + 1)

\* synthesize_data() run in calendar year current_year with the random
\* generator in state r: the error raised ("none": it returns), the value
\* returned and the generator's state afterwards.
synthesize_data(current_year, r) ==
    LET n1 == Len(SeaYears(current_year))
    IN  Fisheries(SeaLevelFrame(SeaYears(current_year),
                                linspace(0, SeaRise, n1),
                                cumsum(randn(r, n1))),
                  FishYears(current_year), RngAt(r, n1))

\* synthesize_data is a function of the calendar year and the generator's
\* state: its results, tabulated.
Synthesized ==
    [year \in Years, r \in 0..(RngMod - 1) |-> synthesize_data(year, r)]

(***************************************************************************)
(* The dashboard: what one run of the script computes after line 116.      *)
(***************************************************************************)
\* FilterYears with the upper bound excluded.
FilterYears_Exclusive(df, lo, hi) ==
    SelectSeq(df, LAMBDA row : row.year >= lo /\ row.year < hi)

\* df[(df['year'] >= lo) & (df['year'] <= hi)]
FilterYears(df, lo, hi) ==
    SelectSeq(df, LAMBDA row : row.year >= lo /\ row.year <= hi)

\* df[df['species'].isin(selected) & (df['year'] >= lo) & (df['year'] <= hi)]
FilterSeafood(df, selected, lo, hi) ==
    SelectSeq(df, LAMBDA row :
        row.species \in selected /\ row.year >= lo /\ row.year <= hi)

Max(S) == CHOOSE x \in S : \A y \in S : y <= x
Min(S) == CHOOSE x \in S : \A y \in S : x <= y

NoFit == [status |-> "not run", slope |-> 0, intercept |-> 0]

\* np.polyfit(df['year'], df['value'], 1).  No point: TypeError.  One point:
\* the system has rank 1, numpy warns (RankWarning) and returns the
\* minimum-norm solution of the column-scaled system, slope y / (2 x) and
\* intercept y / 2.  Otherwise the least-squares line, computed here with
\* the years taken relative to the first one.
polyfit(df) ==
    LET n == Len(df)
        x0 == df[1].year
        sx == SumSeq([i \in 1..n |-> df[i].year - x0])
        sy == SumSeq([i \in 1..n |-> df[i].value])
        sxx == SumSeq([i \in 1..n |-> (df[i].year - x0) * (df[i].year - x0)])
        sxy == SumSeq([i \in 1..n |-> (df[i].year - x0) * df[i].value])
        slope == (n * sxy - sx * sy) \div (n * sxx - sx * sx)
    IN  IF n = 0 THEN [status |-> "TypeError", slope |-> 0, intercept |-> 0]
        ELSE IF n = 1
        THEN [status |-> "RankWarning",
              slope |-> df[1].value \div (2 * df[1].year),
              intercept |-> df[1].value \div 2]
        ELSE [status |-> "ok", slope |-> slope,
              intercept |-> (sy - slope * sx) \div n - slope * x0]

\* total_rise / (max - min) in numpy's arithmetic: a zero divisor raises
\* nothing, the quotient of 0.0 by 0 is nan and of anything else is inf.
Quotient(total_rise, divisor) ==
    IF divisor # 0 THEN [kind |-> "finite", value |-> total_rise \div divisor]
    ELSE IF total_rise = 0 THEN [kind |-> "nan", value |-> 0]
    ELSE [kind |-> "inf", value |-> 0]

NoQuotient == [kind |-> "not run", value |-> 0]

\* The widgets' defaults in calendar year `year`: every slider spans its
\* whole range, the trend line is on, three species are selected.
Defaults(year) ==
    [sl |-> <<SeaStart, year>>, smoothing |-> TRUE,
     fish |-> <<FishStart, year>>, selected |-> DefaultSeafood,
     eco |-> <<FishStart, year>>, nut |-> <<FishStart, year>>]

\* A run that ended at `line` with `error` before computing anything.
NoRun(year, error, line) ==
    [year |-> year, error |-> error, line |-> line,
     sl_filtered |-> << >>, total_rise |-> 0, divisor |-> 0,
     avg_rise_per_year |-> NoQuotient, fit |-> NoFit,
     fish_dist_filtered |-> << >>, seafood_catch_filtered |-> << >>,
     seafood_eco_filtered |-> << >>, nutrition_filtered |-> << >>]

\* Lines 140-206 with the filtered sea-level frame and the ranges of the
\* three other sliders.
Tabs(w, year, datasets, sl_filtered, fish, eco, nut) ==
    LET n == Len(sl_filtered)
        total_rise == sl_filtered[n].value - sl_filtered[1].value
        divisor == Max(YearsOf(sl_filtered)) - Min(YearsOf(sl_filtered))
    IN  IF n = 0
        THEN \* sl_filtered['value'].iloc[-1] of an empty frame
             NoRun(year, "IndexError", 140)
        ELSE [year |-> year, error |-> "none", line |-> 0,
              sl_filtered |-> sl_filtered,
              total_rise |-> total_rise,
              divisor |-> divisor,
              avg_rise_per_year |-> Quotient(total_rise, divisor),
              fit |-> IF w.smoothing THEN polyfit(sl_filtered) ELSE NoFit,
              fish_dist_filtered |->
                  FilterYears(datasets.fish_distribution_change,
                              fish[1], fish[2]),
              seafood_catch_filtered |->
                  FilterSeafood(datasets.main_seafood_catch, w.selected,
                                fish[1], fish[2]),
              seafood_eco_filtered |->
                  FilterYears(datasets.main_seafood_economics, eco[1], eco[2]),
              nutrition_filtered |->
                  FilterYears(datasets.student_nutrition, nut[1], nut[2])]

\* Lines 132-206 with the widgets w in calendar year `year` on `datasets`.
Dashboard(w, year, datasets) ==
    Tabs(w, year, datasets,
         FilterYears(datasets.korea_sea_level, w.sl[1], w.sl[2]),
         w.fish, w.eco, w.nut)

(***************************************************************************)
(* The state.                                                              *)
(***************************************************************************)
VARIABLES
    now,       \* datetime.now().year, as the last run read it; a run reads
               \* the same year or a later one
    rng,       \* the state of numpy's global random generator
    cached,    \* whether st.cache_data holds the value synthesize_data returned
    returned,  \* the values the last two executions of synthesize_data
               \* returned, in order; the last one is the cached one
    widgets,   \* the session's widget values
    run        \* what the last run of the script computed

vars == <<now, rng, cached, returned, widgets, run>>

\* st.cache_data's entry for synthesize_data.
Cache == returned[Len(returned)].data

\* `calls` with one more returned value, the last two kept.
Returned(calls, year, data) ==
    IF calls = << >> THEN <<[year |-> year, data |-> data]>>
    ELSE <<calls[Len(calls)], [year |-> year, data |-> data]>>

\* The years a slider handle over lo..hi is dragged to.
Picks(lo, hi) == {y \in lo..hi : y - lo <= Edge \/ hi - y <= Edge}

\* The values a range slider over lo..hi can take.
Ranges(lo, hi) ==
    {p \in Picks(lo, hi) \X Picks(lo, hi) : p[1] <= p[2]}

\* The selections made in the multiselect.
Selections == {DefaultSeafood, {}, SeafoodNames}

\* The sliders' bounds and defaults change with the year, which makes them
\* new widgets: in a run that reads another year than the last one did,
\* their state is lost.
Session(w, year) ==
    IF year = now THEN w
    ELSE [Defaults(year) EXCEPT !.smoothing = w.smoothing,
                                !.selected = w.selected]

\* The widget states one interaction leads to from w: one widget the last
\* run rendered is changed, or none is (a plain rerun).
Interactions(w) ==
    {w}
    \cup (IF run.line = 116 THEN {}
          ELSE {[w EXCEPT !.sl = p] : p \in Ranges(SeaStart, now)}
               \cup {[w EXCEPT !.smoothing = b] : b \in BOOLEAN})
    \cup (IF run.line # 0 THEN {}
          ELSE {[w EXCEPT !.fish = p] : p \in Ranges(FishStart, now)}
               \cup {[w EXCEPT !.selected = x] : x \in Selections}
               \cup {[w EXCEPT !.eco = p] : p \in Ranges(FishStart, now)}
               \cup {[w EXCEPT !.nut = p] : p \in Ranges(FishStart, now)})

\* The number of widgets of w away from their defaults in `year`.
Changed(w, year) ==
    Cardinality({f \in DOMAIN w : w[f] # Defaults(year)[f]})

\* The widget states a run in `year` can start with: those an interaction
\* leads to, at most MaxChanged widgets away from their defaults.
Sessions(year) ==
    {w \in {Session(v, year) : v \in Interactions(widgets)} :
        Changed(w, year) <= MaxChanged}

\* One run of the script in calendar year `year` with the widgets in one
\* of the states W: line 116 takes the cached value or executes
\* synthesize_data, then the dashboard is drawn.
Script(year, W) ==
    \E res \in {IF cached
                THEN [error |-> "none", data |-> Cache, rng |-> rng]
                ELSE Synthesized[year, rng]} :
    \E w \in W :
    \E out \in {IF res.error # "none" THEN NoRun(year, res.error, 116)
                ELSE Dashboard(w, year, res.data)} :
        /\ now' = year
        /\ rng' = res.rng
        /\ cached' = (res.error = "none")
        /\ returned' = IF cached \/ res.error # "none" THEN returned
                       ELSE Returned(returned, year, res.data)
        /\ run' = out
        /\ widgets' = w

Init ==
    /\ now \in Years
    /\ rng \in 0..MaxSeed
    /\ cached = FALSE
    /\ returned = << >>
    /\ widgets = Defaults(now)
    /\ run = NoRun(now, "not run", 116)

\* A browser session opens the page: the script runs with every widget at
\* its default.
Load == \E year \in now..LastYear : Script(year, {Defaults(year)})

\* The user changes a widget (or asks for a rerun): the script runs again.
Interact ==
    /\ run.error # "not run"
    /\ \E year \in now..LastYear : Script(year, Sessions(year))

\* The user clears the cache from the app's menu.
ClearCache ==
    /\ cached
    /\ cached' = FALSE
    /\ UNCHANGED <<now, rng, returned, widgets, run>>

Next == Load \/ Interact \/ ClearCache

Spec == Init /\ [][Next]_vars

(***************************************************************************)
(* The claims.                                                             *)
(***************************************************************************)
\* The column `year` of a frame.
YearColumn(df) == [i \in 1..Len(df) |-> df[i].year]

\* years is first, first + 1, ..., last.
Contiguous(years, first, last) ==
    /\ Len(years) = last - first + 1
    /\ \A i \in 1..Len(years) : years[i] = first + i - 1

\* The rows of a frame, as a set.
Rows(df) == {df[i] : i \in 1..Len(df)}

\* The place of a row in a frame.
Place(df, row) == CHOOSE i \in 1..Len(df) : df[i] = row

\* out holds the rows of inp that satisfy Keep, and no others, in the order
\* they have in inp.
Keeps(inp, out, Keep(_)) ==
    /\ \A j \in 1..Len(out) : out[j] \in Rows(inp) /\ Keep(out[j])
    /\ \A i \in 1..Len(inp) : Keep(inp[i]) => inp[i] \in Rows(out)
    /\ \A j \in 1..(Len(out) - 1) : Place(inp, out[j]) < Place(inp, out[j + 1])

InYears(row, range) == range[1] <= row.year /\ row.year <= range[2]

\* The last run drew the dashboard from the cached data.
Drawn == run.error = "none"

\* C1: every series synthesize_data returns has one point per year from its
\* first year (1990 for the sea level, 2010 for the others) to the current
\* year: as many points as years, the years ascending without a gap or a
\* repetition; in the frames that hold several species, this is so for each
\* species, and they hold no other rows.
C1_SeriesCoverEveryYear ==
    \A k \in 1..Len(returned) :
        /\ Contiguous(YearColumn(returned[k].data.korea_sea_level),
                      SeaStart, returned[k].year)
        /\ \A s \in 1..Len(DistSpecies) :
               Contiguous(
                   YearColumn(OfSpecies(returned[k].data.fish_distribution_change,
                                        DistSpecies[s].name)),
                   FishStart, returned[k].year)
        /\ Len(returned[k].data.fish_distribution_change)
               = Len(DistSpecies) * (returned[k].year - FishStart + 1)
        /\ \A s \in 1..Len(trends) :
               Contiguous(
                   YearColumn(OfSpecies(returned[k].data.main_seafood_catch,
                                        trends[s].name)),
                   FishStart, returned[k].year)
        /\ Len(returned[k].data.main_seafood_catch)
               = Len(trends) * (returned[k].year - FishStart + 1)
        /\ Contiguous(YearColumn(returned[k].data.main_seafood_economics),
                      FishStart, returned[k].year)
        /\ Contiguous(YearColumn(returned[k].data.student_nutrition),
                      FishStart, returned[k].year)

\* synthesize_data has returned series of more than one year.
C1_Witness ==
    \E k \in 1..Len(returned) :
        /\ returned[k].year > FishStart
        /\ Len(returned[k].data.student_nutrition) > 1

\* C2: every catch synthesize_data returns is >= 0: every row of
\* main_seafood_catch and of fish_distribution_change and the total catch of
\* every year in main_seafood_economics.
C2_CatchNonNegative ==
    \A k \in 1..Len(returned) :
        /\ \A row \in Rows(returned[k].data.main_seafood_catch) : row.catch >= 0
        /\ \A row \in Rows(returned[k].data.fish_distribution_change) :
               row.catch >= 0
        /\ \A row \in Rows(returned[k].data.main_seafood_economics) :
               row.catch >= 0

\* synthesize_data has returned a catch made with the least multiplier: the
\* first year of a species of fish_distribution_change at 0.8 times its
\* starting value.
C2_Witness ==
    \E k \in 1..Len(returned) :
        \E s \in 1..Len(DistSpecies) :
            [year |-> FishStart, species |-> DistSpecies[s].name,
             catch |-> Times(Milli(DistSpecies[s].start), 800)]
                \in Rows(returned[k].data.fish_distribution_change)

\* C3, as amended: each year-range filter of tabs 1 to 4 keeps exactly the
\* rows of its input whose year is within the range, both ends included
\* (for main_seafood_catch: of the selected species), in the order of the
\* input, which may be every row or none; and the slider's whole range
\* keeps every row.
C3_FilterKeepsRange ==
    /\ run.line = 140 =>
           Keeps(Cache.korea_sea_level, run.sl_filtered,
                 LAMBDA row : InYears(row, widgets.sl))
    /\ Drawn =>
        /\ Keeps(Cache.korea_sea_level, run.sl_filtered,
                 LAMBDA row : InYears(row, widgets.sl))
        /\ Keeps(Cache.fish_distribution_change, run.fish_dist_filtered,
                 LAMBDA row : InYears(row, widgets.fish))
        /\ Keeps(Cache.main_seafood_catch, run.seafood_catch_filtered,
                 LAMBDA row : row.species \in widgets.selected
                              /\ InYears(row, widgets.fish))
        /\ Keeps(Cache.main_seafood_economics, run.seafood_eco_filtered,
                 LAMBDA row : InYears(row, widgets.eco))
        /\ Keeps(Cache.student_nutrition, run.nutrition_filtered,
                 LAMBDA row : InYears(row, widgets.nut))
        /\ widgets.sl = <<SeaStart, run.year>>
               => run.sl_filtered = Cache.korea_sea_level
        /\ widgets.fish = <<FishStart, run.year>>
               => /\ run.fish_dist_filtered = Cache.fish_distribution_change
                  /\ \A name \in widgets.selected :
                         OfSpecies(run.seafood_catch_filtered, name)
                             = OfSpecies(Cache.main_seafood_catch, name)
        /\ widgets.eco = <<FishStart, run.year>>
               => run.seafood_eco_filtered = Cache.main_seafood_economics
        /\ widgets.nut = <<FishStart, run.year>>
               => run.nutrition_filtered = Cache.student_nutrition

\* A run has filtered the sea level by a range that keeps some of its rows
\* and drops others.
C3_Witness ==
    /\ Drawn
    /\ Len(run.sl_filtered) > 0
    /\ Len(run.sl_filtered) < Len(Cache.korea_sea_level)

\* C3, as claimed: the years a filter keeps are a strict subset of the
\* years of its input.
C3_StrictSubset ==
    Drawn =>
        /\ YearsOf(run.sl_filtered) \subseteq YearsOf(Cache.korea_sea_level)
        /\ YearsOf(run.sl_filtered) # YearsOf(Cache.korea_sea_level)

\* C4: a year range that matches no row of the sea level is no error: the
\* run that filters by it completes.
C4_EmptyFilterIsNoError ==
    (run.line # 116 /\ run.sl_filtered = << >>) => run.error = "none"

\* C5: two executions of synthesize_data for the same year return the same
\* data.
C5_SameYearSameData ==
    \A i, j \in 1..Len(returned) :
        returned[i].year = returned[j].year
            => returned[i].data = returned[j].data

\* C6: in a year before the first year of a range, synthesize_data fails
\* with an InvalidRangeError.
C6_InvalidRangeError ==
    (run.error # "not run" /\ run.year < FishStart)
        => (run.line = 116 /\ run.error = "InvalidRangeError")

\* C7: the trend fit of fewer than 2 points fails with an
\* InsufficientDataError.
C7_FitNeedsTwoPoints ==
    (Drawn /\ widgets.smoothing /\ Len(run.sl_filtered) < 2)
        => run.fit.status = "InsufficientDataError"

\* C8: main_seafood_economics has one row per year, whose catch is the sum
\* of that year's catches of the five species, and the price index of the
\* first year is 100.
C8_PriceIndexBase ==
    \A k \in 1..Len(returned) :
        /\ Contiguous(YearColumn(returned[k].data.main_seafood_economics),
                      FishStart, returned[k].year)
        /\ \A row \in Rows(returned[k].data.main_seafood_economics) :
               row.catch
                   = SumSeq(CatchIn(returned[k].data.main_seafood_catch, row.year))
        /\ returned[k].data.main_seafood_economics[1].price = Milli(100)

\* C9: every range the sea-level slider permits in the year of the run,
\* SeaStart <= start <= end <= year, selects a row of the cached sea level.
C9_EveryRangeSelectsARow ==
    (cached /\ run.line # 116) =>
        \A start \in SeaStart..now : \A end \in start..now :
            \E row \in Rows(Cache.korea_sea_level) :
                InYears(row, <<start, end>>)

\* C10: the divisor of the average rise per year is not zero.
C10_DivisorNonZero ==
    Drawn => run.divisor # 0

====
